---- MODULE Spec2Model ----
(***************************************************************************)
(* Model of home-manager/modules/lazywarden/decrypt_lazywarden.py:         *)
(* decrypt_blob (base64url decoding, salt/IV/ciphertext split, key         *)
(* derivation, CFB decryption) and main (outer extraction, payload         *)
(* selection, decrypt/parse/write/delete, optional attachments branch).    *)
(* Files are byte sequences; a byte is an integer in 0..255.               *)
(***************************************************************************)
EXTENDS Integers, Sequences, FiniteSets, TLC

\* ------------------------------------------------------------------ bytes

RECURSIVE Xor(_, _)
Xor(a, b) ==
    IF a = 0 THEN b
    ELSE IF b = 0 THEN a
    ELSE (((a % 2) + (b % 2)) % 2) + 2 * Xor(a \div 2, b \div 2)

RECURSIVE SumSeq(_)
SumSeq(s) == IF s = <<>> THEN 0 ELSE Head(s) + SumSeq(Tail(s))

\* Python slice data[lo:hi] (0-based, hi exclusive, clipped to the length).
Slice(s, lo, hi) ==
    LET h == IF hi > Len(s) THEN Len(s) ELSE hi
    IN  IF lo >= h THEN <<>> ELSE [i \in 1..(h - lo) |-> s[lo + i]]

\* The result of a call: a value, or the exception it raised.
Return(v) == [err |-> "none", val |-> v]
Raise(e) == [err |-> e, val |-> <<>>]

\* ----------------------------------------------------------------- base64

BASE64_PAD == 61

\* urlsafe_b64decode's translation ('-' -> '+', '_' -> '/') followed by
\* binascii's decoding table; 64 stands for "not in the alphabet".
table_a2b_base64(ch) ==
    IF ch >= 65 /\ ch <= 90 THEN ch - 65
    ELSE IF ch >= 97 /\ ch <= 122 THEN ch - 71
    ELSE IF ch >= 48 /\ ch <= 57 THEN ch + 4
    ELSE IF ch = 45 \/ ch = 43 THEN 62
    ELSE IF ch = 95 \/ ch = 47 THEN 63
    ELSE 64

\* binascii.a2b_base64 in its non-strict mode, the loop over the input
\* written positionally: characters outside the alphabet are skipped;
\* quad_pos counts the alphabet characters seen, modulo 4; a pad met at
\* quad_pos >= 2 that completes the quad (quad_pos + pads >= 4) ends the
\* input; a dangling quad at the end of the input is an error.
IsB64Char(ch) == table_a2b_base64(ch) < 64

QuadPos(s, p) == Cardinality({j \in 1..(p - 1) : IsB64Char(s[j])}) % 4

\* The pads met since the last alphabet character (any character of the
\* alphabet resets the count).
PadsBefore(s, p) ==
    Cardinality({j \in 1..(p - 1) :
                    /\ s[j] = BASE64_PAD
                    /\ \A k \in (j + 1)..(p - 1) : ~IsB64Char(s[k])})

PadEnds(s, p) ==
    /\ s[p] = BASE64_PAD
    /\ QuadPos(s, p) >= 2
    /\ QuadPos(s, p) + PadsBefore(s, p) + 1 >= 4

B64Byte(vals, j) ==
    LET g == 4 * ((j - 1) \div 3)
        r == (j - 1) % 3
    IN  IF r = 0 THEN (vals[g + 1] * 4 + (vals[g + 2] \div 16)) % 256
        ELSE IF r = 1 THEN ((vals[g + 2] % 16) * 16 + (vals[g + 3] \div 4)) % 256
        ELSE ((vals[g + 3] % 4) * 64 + vals[g + 4]) % 256

a2b_base64(s) ==
    LET stops == {p \in 1..Len(s) : PadEnds(s, p)}
        done == stops # {}
        stop == IF done
                THEN CHOOSE p \in stops : \A q \in stops : p <= q
                ELSE Len(s) + 1
        chars == SelectSeq(Slice(s, 0, stop - 1), IsB64Char)
        vals == [i \in 1..Len(chars) |-> table_a2b_base64(chars[i])]
    IN  IF ~done /\ Len(vals) % 4 # 0
        THEN Raise("binascii.Error")
        ELSE Return([j \in 1..((Len(vals) * 3) \div 4) |-> B64Byte(vals, j)])

urlsafe_b64decode(s) == a2b_base64(s)

\* The URL-safe alphabet, as the encrypting side writes it.
b2a_char(v) ==
    IF v < 26 THEN v + 65
    ELSE IF v < 52 THEN v + 71
    ELSE IF v < 62 THEN v - 4
    ELSE IF v = 62 THEN 45
    ELSE 95

\* base64.urlsafe_b64encode: every 3 bytes give 4 characters, the last
\* group padded with '='.
B64Char(d, k) ==
    LET g == 3 * ((k - 1) \div 4)
        r == (k - 1) % 4
        byte(i) == IF g + i <= Len(d) THEN d[g + i] ELSE 0
    IN  IF r = 0 THEN b2a_char(byte(1) \div 4)
        ELSE IF r = 1 THEN b2a_char((byte(1) % 4) * 16 + (byte(2) \div 16))
        ELSE IF r = 2
        THEN IF g + 2 > Len(d) THEN BASE64_PAD
             ELSE b2a_char((byte(2) % 16) * 4 + (byte(3) \div 64))
        ELSE IF g + 3 > Len(d) THEN BASE64_PAD
             ELSE b2a_char(byte(3) % 64)

urlsafe_b64encode(d) ==
    [k \in 1..(4 * ((Len(d) + 2) \div 3)) |-> B64Char(d, k)]

\* ------------------------------------------------------------ derive_key

TIME_COST == 3
MEMORY_COST == 65536
PARALLELISM == 1
HASH_LEN == 32
ARGON2_MIN_SALT_LENGTH == 8

\* hash_secret_raw stands for Argon2i: here a deterministic mixing of the
\* encoded password, the salt and the cost parameters into HASH_LEN bytes.
\* The library rejects a salt shorter than ARGON2_MIN_SALT_LENGTH.
hash_secret_raw(secret, salt) ==
    IF Len(salt) < ARGON2_MIN_SALT_LENGTH
    THEN Raise("HashingError")
    ELSE LET mix == 31 * SumSeq(secret) + SumSeq(salt)
                    + TIME_COST + MEMORY_COST + PARALLELISM
         IN  Return([i \in 1..HASH_LEN |->
                        (mix + 17 * salt[((i - 1) % Len(salt)) + 1] + 13 * i)
                        % 256])

derive_key(pw, salt) == hash_secret_raw(pw, salt)

\* ---------------------------------------------------------------- cipher

BLOCK_SIZE == 16

\* algorithms.AES(key) applied to one block: a keyed function of the block
\* (CFB uses the forward direction only, for encryption and decryption).
AES(key, block) ==
    LET sum == SumSeq(block)
    IN  [i \in 1..BLOCK_SIZE |->
            (key[i] + 3 * key[i + BLOCK_SIZE] + 5 * block[i] + sum + 7 * i)
            % 256]

\* A constructor that pads a short IV with zeros instead of rejecting it.
Cipher_padded(key, iv) ==
    Return([key |-> key,
            iv |-> [i \in 1..BLOCK_SIZE |-> IF i <= Len(iv) THEN iv[i] ELSE 0]])

\* Cipher(algorithms.AES(key), modes.CFB(iv)): the constructor validates the
\* IV length against the block size.
Cipher(key, iv) ==
    IF Len(iv) # BLOCK_SIZE
    THEN Raise("ValueError")
    ELSE Return([key |-> key, iv |-> iv])

XorSeq(a, b) == [i \in 1..Len(a) |-> Xor(a[i], b[i])]

\* decryptor().update(ct) of a fresh context: full-block cipher feedback,
\* the register starting at the IV and taking each ciphertext block in turn.
RECURSIVE cfb_decrypt(_, _, _)
cfb_decrypt(key, reg, ct) ==
    IF Len(ct) = 0 THEN <<>>
    ELSE IF Len(ct) <= BLOCK_SIZE THEN XorSeq(ct, AES(key, reg))
    ELSE LET blk == Slice(ct, 0, BLOCK_SIZE)
         IN  XorSeq(blk, AES(key, reg))
             \o cfb_decrypt(key, blk, Slice(ct, BLOCK_SIZE, Len(ct)))

decryptor_update(cipher, ct) == cfb_decrypt(cipher.key, cipher.iv, ct)

\* decryptor().finalize() of a fresh context: CFB buffers nothing.
decryptor_finalize(cipher) == <<>>

\* The encrypting side of the format (encrypt() in Lazywarden), needed to
\* build the blobs that decrypt_blob reverses.
RECURSIVE cfb_encrypt(_, _, _)
cfb_encrypt(key, reg, pt) ==
    IF Len(pt) = 0 THEN <<>>
    ELSE IF Len(pt) <= BLOCK_SIZE THEN XorSeq(pt, AES(key, reg))
    ELSE LET blk == XorSeq(Slice(pt, 0, BLOCK_SIZE), AES(key, reg))
         IN  blk \o cfb_encrypt(key, blk, Slice(pt, BLOCK_SIZE, Len(pt)))

encrypt_blob(pt, pw, salt, iv) ==
    urlsafe_b64encode(salt \o iv \o cfb_encrypt(derive_key(pw, salt).val, iv, pt))

\* ---------------------------------------------------------- decrypt_blob

SALT_END == 16
IV_END == 32

SplitSalt(data) == Slice(data, 0, SALT_END)

\* The IV taken one byte too far.
SplitIV_shifted(data) == Slice(data, SALT_END + 1, IV_END + 1)

SplitIV(data) == Slice(data, SALT_END, IV_END)
SplitCt(data) == Slice(data, IV_END, Len(data))

decrypt_blob(blob, enc_pwd) ==
    LET dec == urlsafe_b64decode(blob)
    IN  IF dec.err # "none" THEN dec
        ELSE LET salt == SplitSalt(dec.val)
                 iv == SplitIV(dec.val)
                 ct == SplitCt(dec.val)
                 key == derive_key(enc_pwd, salt)
             IN  IF key.err # "none" THEN key
                 ELSE LET cipher == Cipher(key.val, iv)
                      IN  IF cipher.err # "none" THEN cipher
                          ELSE Return(decryptor_update(cipher.val, ct)
                                      \o decryptor_finalize(cipher.val))

\* ------------------------------------------------------------------ JSON
\* json.loads and json.dump on the documents of the backup format that the
\* model uses: an integer, or an object mapping string keys to integers.
\* Any other input is a parse error (ValueError: UnicodeDecodeError and
\* JSONDecodeError are both ValueErrors).

IsWs(c) == c \in {32, 9, 10, 13}
IsDigit(c) == c >= 48 /\ c <= 57
IsPlainChar(c) == c >= 32 /\ c < 128 /\ c # 34 /\ c # 92

\* First index at or after i that is past the end or holds no whitespace
\* (no digit, no plain character of a string).
SkipWs(s, i) ==
    CHOOSE j \in i..(Len(s) + 1) :
        /\ j = Len(s) + 1 \/ ~IsWs(s[j])
        /\ \A k \in i..(j - 1) : IsWs(s[k])

SkipDigits(s, i) ==
    CHOOSE j \in i..(Len(s) + 1) :
        /\ j = Len(s) + 1 \/ ~IsDigit(s[j])
        /\ \A k \in i..(j - 1) : IsDigit(s[k])

SkipPlainChars(s, i) ==
    CHOOSE j \in i..(Len(s) + 1) :
        /\ j = Len(s) + 1 \/ ~IsPlainChar(s[j])
        /\ \A k \in i..(j - 1) : IsPlainChar(s[k])

At(s, i) == IF i >= 1 /\ i <= Len(s) THEN s[i] ELSE -1

RECURSIVE DigitsVal(_)
DigitsVal(ds) ==
    IF ds = <<>> THEN 0
    ELSE 10 * DigitsVal(Slice(ds, 0, Len(ds) - 1)) + (ds[Len(ds)] - 48)

NoMatch == [ok |-> FALSE, n |-> 0, k |-> <<>>, next |-> 0]

\* NUMBER_RE, the integer part: -?(0|[1-9][0-9]*); a fraction or an exponent
\* makes a float, which the documents here never hold.
ScanInt(s, i) ==
    LET neg == At(s, i) = 45
        d == IF neg THEN i + 1 ELSE i
        e == IF At(s, d) = 48 THEN d + 1 ELSE SkipDigits(s, d)
        isFloat == \/ At(s, e) = 46 /\ IsDigit(At(s, e + 1))
                   \/ At(s, e) \in {69, 101}
                      /\ \/ IsDigit(At(s, e + 1))
                         \/ At(s, e + 1) \in {43, 45} /\ IsDigit(At(s, e + 2))
        v == DigitsVal(Slice(s, d - 1, e - 1))
    IN  IF e = d \/ isFloat THEN NoMatch
        ELSE [ok |-> TRUE, n |-> IF neg THEN 0 - v ELSE v, k |-> <<>>, next |-> e]

\* A string without escapes: '"', plain characters, '"'.
ScanString(s, i) ==
    LET e == SkipPlainChars(s, i + 1)
    IN  IF At(s, i) # 34 \/ At(s, e) # 34 THEN NoMatch
        ELSE [ok |-> TRUE, n |-> 0, k |-> Slice(s, i, e - 1), next |-> e + 1]

\* dict semantics of the pairs read: a repeated key keeps its place and
\* takes the last value.
PutItem(items, key, val) ==
    IF \E j \in 1..Len(items) : items[j].k = key
    THEN [j \in 1..Len(items) |->
            IF items[j].k = key THEN [k |-> key, v |-> val] ELSE items[j]]
    ELSE Append(items, [k |-> key, v |-> val])

NoObject == [ok |-> FALSE, items |-> <<>>, next |-> 0]

\* JSONObject after the opening brace and the first key's position: i is
\* at the '"' of a key.
RECURSIVE ScanPairs(_, _, _)
ScanPairs(s, i, items) ==
    LET key == ScanString(s, i)
        c == SkipWs(s, key.next)
        val == ScanInt(s, SkipWs(s, c + 1))
        e == SkipWs(s, val.next)
        got == PutItem(items, key.k, val.n)
    IN  IF ~key.ok \/ At(s, c) # 58 \/ ~val.ok THEN NoObject
        ELSE IF At(s, e) = 125 THEN [ok |-> TRUE, items |-> got, next |-> e + 1]
        ELSE IF At(s, e) = 44 THEN ScanPairs(s, SkipWs(s, e + 1), got)
        ELSE NoObject

ScanObject(s, i) ==
    LET j == SkipWs(s, i + 1)
    IN  IF At(s, j) = 125 THEN [ok |-> TRUE, items |-> <<>>, next |-> j + 1]
        ELSE ScanPairs(s, j, <<>>)

IntData(n) == [kind |-> "int", n |-> n, items |-> <<>>]
ObjData(items) == [kind |-> "obj", n |-> 0, items |-> items]

json_loads(b) ==
    LET i == SkipWs(b, 1)
        obj == ScanObject(b, i)
        num == ScanInt(b, i)
    IN  IF \E j \in 1..Len(b) : b[j] >= 128 \/ b[j] = 0
        THEN Raise("ValueError")
        ELSE IF At(b, i) = 123
        THEN IF obj.ok /\ SkipWs(b, obj.next) = Len(b) + 1
             THEN Return(ObjData(obj.items))
             ELSE Raise("ValueError")
        ELSE IF num.ok /\ SkipWs(b, num.next) = Len(b) + 1
        THEN Return(IntData(num.n))
        ELSE Raise("ValueError")

RECURSIVE NatBytes(_)
NatBytes(n) ==
    IF n < 10 THEN << 48 + n >> ELSE NatBytes(n \div 10) \o << 48 + (n % 10) >>

IntBytes(n) == IF n < 0 THEN << 45 >> \o NatBytes(0 - n) ELSE NatBytes(n)

\* str comparison of two keys.
KeyLess(a, b) ==
    \/ Len(a) < Len(b) /\ \A i \in 1..Len(a) : a[i] = b[i]
    \/ \E i \in 1..Len(a) :
          /\ i <= Len(b)
          /\ a[i] < b[i]
          /\ \A j \in 1..(i - 1) : a[j] = b[j]

\* sort_keys=True: the items in increasing key order (keys are distinct).
SortedItems(items) ==
    LET rank(j) == 1 + Cardinality({m \in 1..Len(items) :
                                       KeyLess(items[m].k, items[j].k)})
    IN  [r \in 1..Len(items) |->
            items[CHOOSE j \in 1..Len(items) : rank(j) = r]]

INDENT == 2

RECURSIVE DumpItems(_)
DumpItems(items) ==
    IF items = <<>> THEN <<>>
    ELSE << 10 >> \o [i \in 1..INDENT |-> 32]
         \o << 34 >> \o Head(items).k \o << 34, 58, 32 >>
         \o IntBytes(Head(items).v)
         \o (IF Len(items) > 1 THEN << 44 >> ELSE <<>>)
         \o DumpItems(Tail(items))

\* json.dump(data, f, indent=2, sort_keys=True): the text written.
json_dumps(data) ==
    IF data.kind = "int" THEN IntBytes(data.n)
    ELSE IF data.items = <<>> THEN << 123, 125 >>
    ELSE << 123 >> \o DumpItems(SortedItems(data.items)) \o << 10, 125 >>

\* ----------------------------------------------------------------- paths
\* A file name is its sequence of characters.

EndsWith(name, suffix) ==
    /\ Len(name) >= Len(suffix)
    /\ Slice(name, Len(name) - Len(suffix), Len(name)) = suffix

StartsWith(name, prefix) ==
    /\ Len(name) >= Len(prefix)
    /\ Slice(name, 0, Len(prefix)) = prefix

JSON_SUFFIX == << 46, 106, 115, 111, 110 >>                 \* ".json"
ZIP_SUFFIX == << 46, 122, 105, 112 >>                       \* ".zip"
ATTACHMENTS_PREFIX == << 97, 116, 116, 97, 99, 104, 109, 101, 110, 116, 115, 95 >>
                                                              \* "attachments_"
DECRYPTED_SUFFIX == << 95, 100, 101, 99, 114, 121, 112, 116, 101, 100, 46, 106, 115, 111, 110 >>
                                                           \* "_decrypted.json"

\* Path.stem: the name without its last suffix.
Stem(name) ==
    LET dots == {i \in 2..Len(name) : name[i] = 46}
    IN  IF dots = {} THEN name
        ELSE Slice(name, 0, (CHOOSE i \in dots : \A j \in dots : j <= i) - 1)

\* output_dir.glob("*.json")
MatchesJson(name) == EndsWith(name, JSON_SUFFIX)

\* output_dir.glob("attachments_*.zip")
MatchesAttachments(name) ==
    /\ Len(name) >= Len(ATTACHMENTS_PREFIX) + Len(ZIP_SUFFIX)
    /\ StartsWith(name, ATTACHMENTS_PREFIX)
    /\ EndsWith(name, ZIP_SUFFIX)

\* output_dir / f"{json_file.stem}_decrypted.json"
DecryptedName(json_name) == Stem(json_name) \o DECRYPTED_SUFFIX

\* ---------------------------------------------------------------- inputs

None == << -1 >>

ZIP_PASSWORD == << 122 >>
ENCRYPTION_PASSWORD == << 112 >>
ATTACHMENTS_PASSWORD == << 116 >>

\* What the operator may type at each prompt.
ZipPwds == {ZIP_PASSWORD, << 120 >>}
EncPwds == {ENCRYPTION_PASSWORD, << 113 >>}
AttachPwds == {<<>>, ATTACHMENTS_PASSWORD, << 117 >>}

Salt1 == [i \in 1..SALT_END |-> (11 * i) % 256]
IV1 == [i \in 1..(IV_END - SALT_END) |-> 200 - i]

Plain1 == << 123, 34, 98, 34, 58, 50, 44, 34, 97, 34, 58, 49, 125 >>
                                                       \* {"b":2,"a":1}
Plain2 == << 123, 125 >>                              \* {}

PayloadName == << 98, 119, 46, 106, 115, 111, 110 >>         \* "bw.json"
OtherJsonName == << 111, 114, 103, 46, 106, 115, 111, 110 >>  \* "org.json"
AttachmentsName ==
    << 97, 116, 116, 97, 99, 104, 109, 101, 110, 116, 115, 95, 49, 46, 122, 105, 112 >>
                                                        \* "attachments_1.zip"

\* The content of a file: its bytes, and for a nested archive the index of
\* its description in NestedZips (0 for a plain file).
Bytes(bs) == [b |-> bs, z |-> 0]
ZipFile(z) == [b |-> <<>>, z |-> z]

NestedZips ==
    << [pwd |-> ATTACHMENTS_PASSWORD, corrupt |-> FALSE,
        names |-> << << 97, 46, 116, 120, 116 >>, << 98, 46, 116, 120, 116 >> >>],
       [pwd |-> ATTACHMENTS_PASSWORD, corrupt |-> TRUE, names |-> <<>>] >>

GoodBlob(pt) == encrypt_blob(pt, ENCRYPTION_PASSWORD, Salt1, IV1)

\* A blob whose last ciphertext byte was altered after encryption.
CorruptedBlob(pt) ==
    LET d == urlsafe_b64decode(GoodBlob(pt)).val
    IN  urlsafe_b64encode([i \in 1..Len(d) |->
                             IF i = Len(d) THEN Xor(d[i], 85) ELSE d[i]])

\* A blob that lost its last character: its padding is incorrect.
TruncatedBlob(pt) == Slice(GoodBlob(pt), 0, Len(GoodBlob(pt)) - 1)

\* A base64-valid blob that decodes to n bytes only.
ShortBlob(n) == urlsafe_b64encode(Slice(Salt1 \o IV1, 0, n))

Archive(entries, pt) ==
    [pwd |-> ZIP_PASSWORD, corrupt |-> FALSE, entries |-> entries, pt |-> pt]

Entry(name, content) == [name |-> name, content |-> content]

\* The backup archives the runs are given. pt is the plaintext the payload
\* was encrypted from (None when the payload is no encryption of a document).
Archives ==
    {Archive(<< Entry(PayloadName, Bytes(GoodBlob(pt))) >>, pt) :
        pt \in {Plain1, Plain2}}
    \cup {Archive(<< Entry(PayloadName, Bytes(GoodBlob(Plain1))),
                     Entry(AttachmentsName, ZipFile(z)) >>, Plain1) :
            z \in 1..Len(NestedZips)}
    \cup {Archive(<< Entry(OtherJsonName, Bytes(GoodBlob(Plain2))),
                     Entry(PayloadName, Bytes(GoodBlob(Plain1))) >>, Plain1)}
    \cup {Archive(<< Entry(PayloadName, Bytes(CorruptedBlob(Plain1))) >>, None),
          Archive(<< Entry(PayloadName, Bytes(TruncatedBlob(Plain1))) >>, None),
          Archive(<<>>, None),
          [Archive(<<>>, None) EXCEPT !.corrupt = TRUE]}
    \cup {Archive(<< Entry(PayloadName, Bytes(ShortBlob(n))) >>, None) :
            n \in 0..(IV_END - 1)}

\* ----------------------------------------------------------------- state

MaxRuns == 2

VARIABLES
    archive,          \* the backup archive at zip_path (never written)
    argv_len,         \* len(sys.argv)
    zip_is_file,      \* zip_path.is_file()
    run,              \* number of the current run of the program
    pc,               \* position of the current run in the program
    exit_code,        \* exit status of the current run, -1 while it runs
    error,            \* the step whose failure ended the run, "" if none
    dir_exists,       \* output_dir exists
    fs,               \* the files of output_dir: name -> content
    adirs,            \* the directories of output_dir: name -> names in it
    zip_pwd, enc_pwd, attach_pwd,               \* locals of main
    json_file, decrypted_json, attachments_zip, \* locals of main
    encrypted_blob, plaintext, data,            \* locals of main
    before,           \* the directory as the current run found it
    did,              \* the side effects the current run has performed
    was_killed,       \* an earlier run was interrupted before its end
    codec             \* the calls of decrypt_blob made on their own

mainVars == << archive, argv_len, zip_is_file, run, pc, exit_code, error,
               dir_exists, fs, adirs, zip_pwd, enc_pwd, attach_pwd, json_file,
               decrypted_json, attachments_zip, encrypted_blob, plaintext,
               data, before, did, was_killed >>

vars == << mainVars, codec >>

NoData == [kind |-> "none", n |-> 0, items |-> <<>>]
NoCalls == [n |-> 0, blob |-> <<>>, pt |-> <<>>, pw |-> <<>>, use |-> <<>>,
            out |-> Return(<<>>), prev_salt |-> <<>>, prev_iv |-> <<>>]

Locals ==
    /\ zip_pwd = None /\ enc_pwd = None /\ attach_pwd = None
    /\ json_file = None /\ decrypted_json = None /\ attachments_zip = None
    /\ encrypted_blob = None /\ plaintext = None /\ data = NoData
    /\ did = {}

Init ==
    /\ archive \in Archives
    /\ argv_len \in {1, 2, 3}
    /\ zip_is_file \in BOOLEAN
    /\ run = 1
    /\ pc = "start"
    /\ exit_code = -1
    /\ error = ""
    /\ dir_exists = FALSE
    /\ fs = << >>
    /\ adirs = << >>
    /\ before = [dir_exists |-> FALSE, fs |-> << >>, adirs |-> << >>]
    /\ Locals
    /\ was_killed = FALSE
    /\ codec = NoCalls

\* sys.exit(message), or an exception nothing catches: status 1.
Exit(step) ==
    /\ pc' = "failed"
    /\ exit_code' = 1
    /\ error' = step

\* A message printed where the program should have exited: the run goes on
\* at the next statement.
FallThrough(step, next) ==
    /\ pc' = next
    /\ error' = step
    /\ UNCHANGED exit_code

ExitNotFound_printOnly == FallThrough("not_found", "getpass")
ExitExtractionFailed_printOnly == FallThrough("extract", "glob_json")
ExitDecryptionFailed_printOnly(step) == FallThrough(step, "glob_att")

\* The exits of the program, one per place.
ExitUsage == Exit("usage")                      \* line 159
ExitNotFound == Exit("not_found")               \* line 52
ExitExtractionFailed == Exit("extract")         \* line 83
ExitNoJson == Exit("no_json")                   \* line 88
ExitDecryptionFailed(step) == Exit(step)        \* line 113
Uncaught(step) == Exit(step)                    \* a traceback

Goto(next) ==
    /\ pc' = next
    /\ UNCHANGED << exit_code, error >>

\* main returns: status 0.
Finish ==
    /\ pc' = "done"
    /\ exit_code' = 0
    /\ UNCHANGED error

Names(f) == DOMAIN f

WriteFile(f, name, content) ==
    [n \in Names(f) \cup {name} |-> IF n = name THEN content ELSE f[n]]

RemoveFile(f, name) == [n \in Names(f) \ {name} |-> f[n]]

\* The first k members of an archive written to the directory, each over
\* whatever file had its name.
RECURSIVE WriteEntries(_, _, _)
WriteEntries(f, entries, k) ==
    IF k = 0 THEN f
    ELSE WriteFile(WriteEntries(f, entries, k - 1),
                   entries[k].name, entries[k].content)

frame == << archive, argv_len, zip_is_file, run, was_killed, before, codec >>
state == << dir_exists, fs, adirs >>
locals == << zip_pwd, enc_pwd, attach_pwd, json_file, decrypted_json,
             attachments_zip, encrypted_blob, plaintext, data >>

\* if len(sys.argv) != 2: sys.exit(usage)
CheckArgs ==
    /\ pc = "start"
    /\ IF argv_len # 2 THEN ExitUsage ELSE Goto("main")
    /\ UNCHANGED << frame, state, locals, did >>

\* if not zip_path.is_file(): sys.exit(...)
CheckFile ==
    /\ pc = "main"
    /\ IF ~zip_is_file THEN ExitNotFound ELSE Goto("getpass")
    /\ UNCHANGED << frame, state, locals, did >>

\* The two getpass prompts.
GetPasswords ==
    /\ pc = "getpass"
    /\ zip_pwd' \in ZipPwds
    /\ enc_pwd' \in EncPwds
    /\ did' = did \cup {"prompt"}
    /\ Goto("mkdir")
    /\ UNCHANGED << frame, state, attach_pwd, json_file, decrypted_json,
                    attachments_zip, encrypted_blob, plaintext, data >>

\* output_dir.mkdir(exist_ok=True); its failure is caught by nothing.
MakeOutputDir ==
    /\ pc = "mkdir"
    /\ \/ /\ dir_exists' = TRUE
          /\ did' = did \cup {"mkdir"}
          /\ Goto("extract")
       \/ /\ ~dir_exists
          /\ Uncaught("mkdir")
          /\ UNCHANGED << dir_exists, did >>
    /\ UNCHANGED << frame, fs, adirs, locals >>

\* with pyzipper.AESZipFile(zip_path) as zf: ... zf.extractall(...), under
\* "except Exception: sys.exit". A damaged archive fails when it is opened,
\* a wrong password at the first member, an I/O error after any number of
\* members.
ExtractOuter ==
    /\ pc = "extract"
    /\ LET n == Len(archive.entries)
       IN  IF archive.corrupt \/ (n > 0 /\ zip_pwd # archive.pwd)
           THEN /\ ExitExtractionFailed
                /\ UNCHANGED << fs, did >>
           ELSE \/ /\ fs' = WriteEntries(fs, archive.entries, n)
                   /\ did' = did \cup {"extract"}
                   /\ Goto("glob_json")
                \/ \E k \in 0..(n - 1) :
                      /\ fs' = WriteEntries(fs, archive.entries, k)
                      /\ did' = IF k > 0 THEN did \cup {"extract"} ELSE did
                      /\ ExitExtractionFailed
    /\ UNCHANGED << frame, dir_exists, adirs, locals >>

\* json_files = list(output_dir.glob("*.json")); json_files[0]. The order
\* of a directory listing is the file system's, so the first element may be
\* any of the matching files.
JsonFiles == {n \in Names(fs) : MatchesJson(n)}

SelectPayload ==
    /\ pc = "glob_json"
    /\ IF JsonFiles = {}
       THEN /\ ExitNoJson
            /\ UNCHANGED json_file
       ELSE /\ json_file' \in JsonFiles
            /\ Goto("decrypt")
    /\ UNCHANGED << frame, state, zip_pwd, enc_pwd, attach_pwd, decrypted_json,
                    attachments_zip, encrypted_blob, plaintext, data, did >>

\* Lines 94-101: read the file, decrypt_blob, json.loads, the output name.
\* Every exception is turned into sys.exit by the handler of line 112.
DecryptPayload ==
    /\ pc = "decrypt"
    /\ LET blob == fs[json_file].b
           dec == decrypt_blob(blob, enc_pwd)
           parsed == json_loads(dec.val)
       IN  \/ /\ ExitDecryptionFailed("read")
              /\ UNCHANGED << encrypted_blob, plaintext, data, decrypted_json >>
           \/ /\ encrypted_blob' = blob
              /\ IF dec.err # "none"
                 THEN /\ ExitDecryptionFailed("decrypt")
                      /\ UNCHANGED << plaintext, data, decrypted_json >>
                 ELSE /\ plaintext' = dec.val
                      /\ IF parsed.err # "none"
                         THEN /\ ExitDecryptionFailed("parse")
                              /\ UNCHANGED << data, decrypted_json >>
                         ELSE /\ data' = parsed.val
                              /\ decrypted_json' = DecryptedName(json_file)
                              /\ Goto("open_out")
    /\ UNCHANGED << frame, state, zip_pwd, enc_pwd, attach_pwd, json_file,
                    attachments_zip, did >>

\* open(decrypted_json, 'w'): the file is created, or emptied.
OpenOutput ==
    /\ pc = "open_out"
    /\ \/ /\ fs' = WriteFile(fs, decrypted_json, Bytes(<<>>))
          /\ did' = did \cup {"write"}
          /\ Goto("dump")
       \/ /\ ExitDecryptionFailed("open")
          /\ UNCHANGED << fs, did >>
    /\ UNCHANGED << frame, dir_exists, adirs, locals >>

\* What a write that stops early leaves in the file: a proper prefix.
PartialLens(text) == {0, Len(text) \div 2} \ {Len(text)}

\* A write whose failure is swallowed: the run goes on to the unlink.
DumpOutput_swallowed ==
    /\ pc = "dump"
    /\ \E k \in PartialLens(json_dumps(data)) \cup {Len(json_dumps(data))} :
          fs' = WriteFile(fs, decrypted_json,
                          Bytes(Slice(json_dumps(data), 0, k)))
    /\ Goto("unlink")
    /\ UNCHANGED << frame, dir_exists, adirs, locals, did >>

\* json.dump(data, f, indent=2, sort_keys=True) and the close of the file.
DumpOutput ==
    /\ pc = "dump"
    /\ LET text == json_dumps(data)
       IN  \/ /\ fs' = WriteFile(fs, decrypted_json, Bytes(text))
              /\ Goto("unlink")
           \/ \E k \in PartialLens(text) :
                 /\ fs' = WriteFile(fs, decrypted_json, Bytes(Slice(text, 0, k)))
                 /\ ExitDecryptionFailed("dump")
    /\ UNCHANGED << frame, dir_exists, adirs, locals, did >>

\* json_file.unlink(), still inside the try.
UnlinkPayload ==
    /\ pc = "unlink"
    /\ \/ /\ fs' = RemoveFile(fs, json_file)
          /\ did' = did \cup {"unlink_json"}
          /\ Goto("glob_att")
       \/ /\ ExitDecryptionFailed("unlink")
          /\ UNCHANGED << fs, did >>
    /\ UNCHANGED << frame, dir_exists, adirs, locals >>

\* attachments_zips = list(output_dir.glob("attachments_*.zip"))
AttachmentsZips == {n \in Names(fs) : MatchesAttachments(n)}

FindAttachments ==
    /\ pc = "glob_att"
    /\ IF AttachmentsZips = {}
       THEN /\ Finish
            /\ UNCHANGED attachments_zip
       ELSE /\ attachments_zip' \in AttachmentsZips
            /\ Goto("getpass_att")
    /\ UNCHANGED << frame, state, zip_pwd, enc_pwd, attach_pwd, json_file,
                    decrypted_json, encrypted_blob, plaintext, data, did >>

\* The test of the password left out.
SkipAttachments_never(pwd) == FALSE

\* if attach_pwd: ... else: skip
SkipAttachments(pwd) == pwd = <<>>

AskAttachmentsPassword ==
    /\ pc = "getpass_att"
    /\ attach_pwd' \in AttachPwds
    /\ did' = did \cup {"prompt_att"}
    /\ IF SkipAttachments(attach_pwd') THEN Finish ELSE Goto("mkdir_att")
    /\ UNCHANGED << frame, state, zip_pwd, enc_pwd, json_file, decrypted_json,
                    attachments_zip, encrypted_blob, plaintext, data >>

\* attachments_dir.mkdir(exist_ok=True), before the try: its failure is
\* caught by nothing.
MakeAttachmentsDir ==
    /\ pc = "mkdir_att"
    /\ LET dir == Stem(attachments_zip)
       IN  \/ /\ dir \notin Names(fs)
              /\ adirs' = IF dir \in DOMAIN adirs THEN adirs
                          ELSE WriteFile(adirs, dir, {})
              /\ did' = did \cup {"mkdir_att"}
              /\ Goto("extract_att")
           \/ /\ dir \notin DOMAIN adirs
              /\ Uncaught("mkdir_att")
              /\ UNCHANGED << adirs, did >>
    /\ UNCHANGED << frame, dir_exists, fs, locals >>

Nested(name) == NestedZips[fs[name].z]

PrefixSet(names, k) == {names[i] : i \in 1..k}

\* Lines 129-146: the nested archive is opened and extracted; RuntimeError
\* and any other Exception are reported and the run goes on.
ExtractAttachments ==
    /\ pc = "extract_att"
    /\ LET dir == Stem(attachments_zip)
           zf == Nested(attachments_zip)
           n == Len(zf.names)
       IN  IF zf.corrupt \/ (n > 0 /\ attach_pwd # zf.pwd)
           THEN /\ did' = did \cup {"open_att", "att_failed"}
                /\ Finish
                /\ UNCHANGED adirs
           ELSE \/ /\ adirs' = [adirs EXCEPT ![dir] = @ \cup PrefixSet(zf.names, n)]
                   /\ did' = did \cup {"open_att", "extract_att"}
                   /\ Goto("unlink_att")
                \/ \E k \in 0..(n - 1) :
                      /\ adirs' = [adirs EXCEPT ![dir] = @ \cup PrefixSet(zf.names, k)]
                      /\ did' = did \cup {"open_att", "att_failed"}
                      /\ Finish
    /\ UNCHANGED << frame, dir_exists, fs, locals >>

\* attachments_zip.unlink(), inside the try.
UnlinkAttachments ==
    /\ pc = "unlink_att"
    /\ \/ /\ fs' = RemoveFile(fs, attachments_zip)
          /\ did' = did \cup {"unlink_att"}
       \/ /\ did' = did \cup {"att_failed"}
          /\ UNCHANGED fs
    /\ Finish
    /\ UNCHANGED << frame, dir_exists, adirs, locals >>

\* ---------------------------------------------- interruption and re-run

Running == pc \notin {"done", "failed", "killed"}

Kill ==
    /\ pc' = "killed"
    /\ exit_code' = 130
    /\ UNCHANGED << frame, error, dir_exists, locals, did >>

\* The operator aborts the run between two steps.
Interrupt ==
    /\ Running
    /\ Kill
    /\ UNCHANGED << fs, adirs >>

\* ... in the middle of the outer extraction,
InterruptExtract ==
    /\ pc = "extract"
    /\ ~archive.corrupt
    /\ zip_pwd = archive.pwd
    /\ \E k \in 1..(Len(archive.entries) - 1) :
          fs' = WriteEntries(fs, archive.entries, k)
    /\ Kill
    /\ UNCHANGED adirs

\* ... in the middle of the write of the output,
InterruptDump ==
    /\ pc = "dump"
    /\ \E k \in PartialLens(json_dumps(data)) \ {0} :
          fs' = WriteFile(fs, decrypted_json,
                          Bytes(Slice(json_dumps(data), 0, k)))
    /\ Kill
    /\ UNCHANGED adirs

\* ... or in the middle of the extraction of the attachments.
InterruptExtractAttachments ==
    /\ pc = "extract_att"
    /\ LET zf == Nested(attachments_zip)
       IN  /\ ~zf.corrupt
           /\ attach_pwd = zf.pwd
           /\ \E k \in 1..(Len(zf.names) - 1) :
                 adirs' = [adirs EXCEPT ![Stem(attachments_zip)] =
                                           @ \cup PrefixSet(zf.names, k)]
    /\ Kill
    /\ UNCHANGED fs

\* The program is started again on the same archive; the destination
\* directory is as the earlier run left it.
Rerun ==
    /\ ~Running
    /\ run < MaxRuns
    /\ run' = run + 1
    /\ pc' = "start"
    /\ exit_code' = -1
    /\ error' = ""
    /\ argv_len' \in {1, 2, 3}
    /\ zip_is_file' \in BOOLEAN
    /\ zip_pwd' = None /\ enc_pwd' = None /\ attach_pwd' = None
    /\ json_file' = None /\ decrypted_json' = None /\ attachments_zip' = None
    /\ encrypted_blob' = None /\ plaintext' = None /\ data' = NoData
    /\ did' = {}
    /\ was_killed' = (was_killed \/ pc = "killed")
    /\ before' = [dir_exists |-> dir_exists, fs |-> fs, adirs |-> adirs]
    /\ UNCHANGED << archive, codec, state >>

Next ==
    \/ CheckArgs
    \/ CheckFile
    \/ GetPasswords
    \/ MakeOutputDir
    \/ ExtractOuter
    \/ SelectPayload
    \/ DecryptPayload
    \/ OpenOutput
    \/ DumpOutput
    \/ UnlinkPayload
    \/ FindAttachments
    \/ AskAttachmentsPassword
    \/ MakeAttachmentsDir
    \/ ExtractAttachments
    \/ UnlinkAttachments
    \/ Interrupt
    \/ InterruptExtract
    \/ InterruptDump
    \/ InterruptExtractAttachments
    \/ Rerun

Spec == Init /\ [][Next]_vars

\* ------------------------------------------------ decrypt_blob on its own
\* Calls of decrypt_blob, one after the other, each on a blob built by the
\* encrypting side from a passphrase, a salt, an IV and a plaintext.

MaxCalls == 2

Salt2 == [i \in 1..SALT_END |-> (250 - 3 * i) % 256]
IV2 == [i \in 1..(IV_END - SALT_END) |-> (7 * i + 1) % 256]
Salts == {Salt1, Salt2}
IVs == {IV1, IV2}

\* More than one cipher block, to exercise the feedback.
LongPlain == [i \in 1..(BLOCK_SIZE + 5) |-> (37 * i) % 256]
Plaintexts == {<<>>, Plain2, Plain1, LongPlain}

InitCodec ==
    /\ archive = Archive(<<>>, None)
    /\ argv_len = 2
    /\ zip_is_file = TRUE
    /\ run = 1
    /\ pc = "start"
    /\ exit_code = -1
    /\ error = ""
    /\ dir_exists = FALSE
    /\ fs = << >>
    /\ adirs = << >>
    /\ before = [dir_exists |-> FALSE, fs |-> << >>, adirs |-> << >>]
    /\ Locals
    /\ was_killed = FALSE
    /\ codec = NoCalls

CodecCall ==
    /\ codec.n < MaxCalls
    /\ \E pw \in EncPwds, use \in EncPwds, salt \in Salts, iv \in IVs,
          pt \in Plaintexts :
          LET blob == encrypt_blob(pt, pw, salt, iv)
              last == urlsafe_b64decode(codec.blob).val
          IN  codec' = [n |-> codec.n + 1, blob |-> blob, pt |-> pt,
                        pw |-> pw, use |-> use,
                        out |-> decrypt_blob(blob, use),
                        prev_salt |-> Slice(last, 0, SALT_END),
                        prev_iv |-> Slice(last, SALT_END, IV_END)]
    /\ UNCHANGED mainVars

NextCodec == CodecCall

SpecCodec == InitCodec /\ [][NextCodec]_vars

\* ---------------------------------------------------------------- claims

\* C9: round trip. Whatever the passphrase, the 16-byte salt, the 16-byte
\* IV and the plaintext, decrypt_blob on
\* base64url(salt || iv || CFB-encrypt(derive_key(passphrase, salt), iv,
\* plaintext)) with the same passphrase returns exactly the plaintext; this
\* holds call after call, so the salt and the IV are those of the blob in
\* hand, not of the blob of the call before.
C9_RoundTrip ==
    (codec.n > 0 /\ codec.use = codec.pw) => codec.out = Return(codec.pt)

\* A second call, on a blob with another salt and another IV than the call
\* before, and a plaintext longer than one block.
C9_Witness ==
    /\ codec.n = 2
    /\ codec.use = codec.pw
    /\ codec.pt = LongPlain
    /\ Slice(urlsafe_b64decode(codec.blob).val, 0, SALT_END) # codec.prev_salt
    /\ Slice(urlsafe_b64decode(codec.blob).val, SALT_END, IV_END)
         # codec.prev_iv
    /\ codec.out = Return(LongPlain)

\* What the current run has done to the attachments container.
AttachmentsEffects ==
    {"prompt_att", "mkdir_att", "open_att", "extract_att", "unlink_att",
     "att_failed"}

AttachmentsEntered ==
    \/ did \cap AttachmentsEffects # {}
    \/ attachments_zip # None
    \/ pc \in {"getpass_att", "mkdir_att", "extract_att", "unlink_att"}

OutputComplete ==
    /\ decrypted_json # None
    /\ decrypted_json \in Names(fs)
    /\ fs[decrypted_json] = Bytes(json_dumps(data))

\* C1: the encrypted payload (the chosen *.json) is deleted only after the
\* output file <stem>_decrypted.json has been written in full and closed:
\* in every state in which the run has deleted the payload, or the chosen
\* payload is absent, the output file holds the complete serialisation,
\* also when json.loads, open or json.dump failed.
C1_DeleteAfterWrite ==
    ((json_file # None /\ json_file \notin Names(fs)) \/ "unlink_json" \in did)
        => OutputComplete

\* The payload has been deleted and the output is complete.
C1_Witness ==
    /\ "unlink_json" \in did
    /\ json_file \notin Names(fs)
    /\ OutputComplete

\* The blob read decodes to at least the 32 bytes of salt and IV.
WellFormedBlob ==
    /\ encrypted_blob # None
    /\ urlsafe_b64decode(encrypted_blob).err = "none"
    /\ Len(urlsafe_b64decode(encrypted_blob).val) >= IV_END

\* The passphrase typed is not the one the payload was encrypted with, or
\* the blob read is not what the encrypting side wrote.
WrongOrCorrupted ==
    \/ enc_pwd # ENCRYPTION_PASSWORD
    \/ encrypted_blob \notin {GoodBlob(Plain1), GoodBlob(Plain2)}

C4_EmptyPasswordSkips ==
    (attachments_zip # None /\ attach_pwd = <<>>) =>
        /\ pc = "done" /\ exit_code = 0
        /\ attachments_zip \in Names(fs)
        /\ \E i \in 1..Len(archive.entries) :
              archive.entries[i] = Entry(attachments_zip, fs[attachments_zip])
        /\ adirs = before.adirs
        /\ did \cap AttachmentsEffects = {"prompt_att"}

C4_Witness ==
    /\ attachments_zip = AttachmentsName
    /\ attach_pwd = <<>>
    /\ pc = "done"
    /\ "unlink_json" \in did

\* C7: started with a wrong number of arguments, or on a path that is no
\* file, the run exits with status 1 before any side effect: it prompts for
\* no password, creates no directory, writes and deletes no file.
C7_BadInvocationNoEffects ==
    (argv_len # 2 \/ ~zip_is_file) =>
        /\ pc \in {"start", "main", "failed", "killed"}
        /\ pc = "failed" => (exit_code = 1 /\ error \in {"usage", "not_found"})
        /\ (argv_len # 2 /\ pc = "failed") => error = "usage"
        /\ pc = "main" => argv_len = 2
        /\ did = {}
        /\ zip_pwd = None /\ enc_pwd = None /\ attach_pwd = None
        /\ [dir_exists |-> dir_exists, fs |-> fs, adirs |-> adirs] = before

\* Both kinds of bad invocation, the second on a directory an earlier run
\* has left files in.
C7_Witness ==
    /\ pc = "failed"
    /\ error = "not_found"
    /\ run > 1
    /\ Names(fs) # {}

\* C8: a blob that is valid base64 and decodes to fewer than 32 bytes makes
\* decrypt_blob fail instead of returning bytes, and the run ends at the
\* decrypt step with status 1: no output file written, payload not deleted.
C8_ShortBlobFatal ==
    (/\ encrypted_blob # None
     /\ urlsafe_b64decode(encrypted_blob).err = "none"
     /\ Len(urlsafe_b64decode(encrypted_blob).val) < IV_END) =>
        /\ decrypt_blob(encrypted_blob, enc_pwd).err # "none"
        /\ pc = "failed" /\ error = "decrypt" /\ exit_code = 1
        /\ plaintext = None /\ data = NoData
        /\ "write" \notin did /\ decrypted_json = None
        /\ "unlink_json" \notin did
        /\ json_file \in Names(fs) /\ fs[json_file].b = encrypted_blob

\* A blob of 31 decoded bytes: a full salt and an IV one byte short.
C8_Witness ==
    /\ encrypted_blob = ShortBlob(IV_END - 1)
    /\ pc = "failed"
    /\ error = "decrypt"

MandatoryErrors ==
    {"usage", "not_found", "mkdir", "extract", "no_json", "read", "decrypt",
     "parse", "open", "dump", "unlink"}

\* C10: the steps come in the order outer extraction, payload location,
\* decryption and parse, output write, payload deletion, and the
\* attachments branch is entered only once the payload has been deleted
\* (the finalized state); a fatal condition on the mandatory path ends the
\* run with status 1 and the attachments container has not been searched
\* for, prompted for, opened or deleted.
C10_Order ==
    /\ json_file # None => ("mkdir" \in did /\ zip_pwd # None /\ dir_exists)
    /\ encrypted_blob # None => json_file # None
    /\ data # NoData => (encrypted_blob # None /\ plaintext # None)
    /\ "write" \in did => (data # NoData /\ decrypted_json # None)
    /\ "unlink_json" \in did => ("write" \in did /\ OutputComplete)
    /\ AttachmentsEntered => "unlink_json" \in did
    /\ pc \in {"glob_att", "done"} => "unlink_json" \in did
    /\ error \in MandatoryErrors =>
          (pc = "failed" /\ exit_code = 1 /\ ~AttachmentsEntered)
    /\ (pc = "failed" /\ error # "mkdir_att") => error \in MandatoryErrors

\* A run that went through every step, attachments included.
C10_Witness ==
    /\ pc = "done"
    /\ "unlink_att" \in did
    /\ "unlink_json" \in did

\* The attachments step met a failure: one that was caught and reported, or
\* the failure to create the attachments directory.
AttachmentsFailed == "att_failed" \in did \/ error = "mkdir_att"

\* C3: a failure on the attachments path is caught and reported and leaves
\* the outcome of the run alone: the run ends with status 0, the output
\* file written before is unchanged, the container is not deleted.
C3_AttachmentsFailureHarmless ==
    AttachmentsFailed =>
        /\ pc = "done" /\ exit_code = 0
        /\ OutputComplete
        /\ attachments_zip \in Names(fs)
        /\ "unlink_att" \notin did

\* C5: when more than one *.json is in the destination directory after the
\* outer extraction, the run goes on and the file selected is the first in
\* sorted order of name, whatever the order of the directory listing.
C5_SelectsSortedFirst ==
    (pc = "decrypt" /\ Cardinality(JsonFiles) > 1) =>
        /\ json_file \in JsonFiles
        /\ \A n \in JsonFiles \ {json_file} : KeyLess(json_file, n)

EntryNames == {archive.entries[i].name : i \in 1..Len(archive.entries)}

\* C6: a run started again after an interrupted one, on the same archive
\* and the directory the earlier run left, with the right passwords:
\* it selects the payload extracted from the archive, never a file an
\* earlier run left, it does not fail for want of a payload or on the
\* decryption, and once finalized the output is the one an uninterrupted
\* run produces.
C6_RerunFromScratch ==
    (/\ run > 1 /\ was_killed
     /\ archive.pt # None
     /\ Cardinality({n \in EntryNames : MatchesJson(n)}) = 1
     /\ zip_pwd = archive.pwd /\ enc_pwd = ENCRYPTION_PASSWORD) =>
        /\ json_file # None => json_file \in EntryNames
        /\ pc = "failed" => error \notin {"no_json", "decrypt", "parse"}
        /\ "unlink_json" \in did =>
              /\ decrypted_json = DecryptedName(PayloadName)
              /\ fs[decrypted_json] =
                    Bytes(json_dumps(json_loads(archive.pt).val))

====
